---- MODULE Spec2Model ----
(***************************************************************************)
(* Model of python-packaging/src/policy.rs: the resource placement policy  *)
(* and its text form, the packaging policy with its setters, the resource  *)
(* inclusion predicate and the extension module resolution.                *)
(*                                                                         *)
(* Rust values are modelled as follows.                                    *)
(*   Option<T>            None is <<>>, Some(x) is <<x>>                   *)
(*   Result<T, E>         <<"Ok", x>> and <<"Err", message>>               *)
(*   String, &str         TLA+ strings                                     *)
(*   Vec<T>               sequences                                        *)
(*   HashMap<K, V>        functions whose domain is the set of keys        *)
(*   enum without payload the variant's name as a string                   *)
(*   PythonResourcesPolicy  <<"InMemoryOnly">>, <<variant, prefix>>        *)
(***************************************************************************)
EXTENDS Naturals, Sequences, FiniteSets, TLC

VARIABLES
    extension_module_filter,
    preferred_extension_module_variants,
    resources_policy,
    include_distribution_sources,
    include_distribution_resources,
    include_test,
    broken_extensions,
    call

policy_vars == <<extension_module_filter, preferred_extension_module_variants,
                 resources_policy, include_distribution_sources,
                 include_distribution_resources, include_test, broken_extensions>>

vars == <<extension_module_filter, preferred_extension_module_variants,
          resources_policy, include_distribution_sources,
          include_distribution_resources, include_test, broken_extensions, call>>

-----------------------------------------------------------------------------
(* Bounds of the model. *)

\* Largest number of register_broken_extension calls explored.
MaxBroken == 2

\* Largest number of variants in a group resolved alone.
MaxVariants == 2

\* Largest number of groups in a resolved sequence of groups.
MaxGroups == 2

\* Longest path prefix of a resources policy.
MaxPrefixLen == 2

-----------------------------------------------------------------------------
(* Option, Result, HashMap and Vec helpers. *)

None == <<>>

Some(x) == <<x>>

Ok(x) == <<"Ok", x>>

Err(msg) == <<"Err", msg>>

EmptyMap == [k \in {} |-> ""]

MapGet(m, k) == IF k \in DOMAIN m THEN Some(m[k]) ELSE None

MapInsert(m, k, v) == [x \in (DOMAIN m) \cup {k} |-> IF x = k THEN v ELSE m[x]]

VecContains(v, x) == \E i \in DOMAIN v : v[i] = x

starts_with(value, lit) ==
    /\ Len(value) >= Len(lit)
    /\ SubSeq(value, 1, Len(lit)) = lit

StripLiteral(value, lit) == SubSeq(value, Len(lit) + 1, Len(value))

-----------------------------------------------------------------------------
(* PythonResourcesPolicy and its text form. *)

InMemoryOnly == <<"InMemoryOnly">>

FilesystemRelativeOnly(prefix) == <<"FilesystemRelativeOnly", prefix>>

PreferInMemoryFallbackFilesystemRelative(prefix) ==
    <<"PreferInMemoryFallbackFilesystemRelative", prefix>>

\* impl TryFrom<&str> for PythonResourcesPolicy, with the prefix taken one
\* character late.
TryFrom_OffByOne(value) ==
    IF value = "in-memory-only"
    THEN Ok(InMemoryOnly)
    ELSE IF starts_with(value, "filesystem-relative-only:")
    THEN Ok(FilesystemRelativeOnly(
             SubSeq(value, Len("filesystem-relative-only:") + 2, Len(value))))
    ELSE IF starts_with(value, "prefer-in-memory-fallback-filesystem-relative:")
    THEN Ok(PreferInMemoryFallbackFilesystemRelative(
             StripLiteral(value, "prefer-in-memory-fallback-filesystem-relative:")))
    ELSE Err("invalid value for Python Resources Policy: " \o value)

\* impl TryFrom<&str> for PythonResourcesPolicy
TryFrom(value) ==
    IF value = "in-memory-only"
    THEN Ok(InMemoryOnly)
    ELSE IF starts_with(value, "filesystem-relative-only:")
    THEN Ok(FilesystemRelativeOnly(
             StripLiteral(value, "filesystem-relative-only:")))
    ELSE IF starts_with(value, "prefer-in-memory-fallback-filesystem-relative:")
    THEN Ok(PreferInMemoryFallbackFilesystemRelative(
             StripLiteral(value, "prefer-in-memory-fallback-filesystem-relative:")))
    ELSE Err("invalid value for Python Resources Policy: " \o value)

\* impl Into<String> for &PythonResourcesPolicy
Into(self) ==
    CASE self[1] = "FilesystemRelativeOnly" ->
            "filesystem-relative-only:" \o self[2]
      [] self[1] = "InMemoryOnly" -> "in-memory-only"
      [] self[1] = "PreferInMemoryFallbackFilesystemRelative" ->
            "prefer-in-memory-fallback-filesystem-relative:" \o self[2]

-----------------------------------------------------------------------------
(* ExtensionModuleFilter. *)

ExtensionModuleFilter == {"Minimal", "All", "NoLibraries", "NoGPL"}

-----------------------------------------------------------------------------
(* The policy as a value (&self). *)

Self ==
    [extension_module_filter |-> extension_module_filter,
     preferred_extension_module_variants |-> preferred_extension_module_variants,
     resources_policy |-> resources_policy,
     include_distribution_sources |-> include_distribution_sources,
     include_distribution_resources |-> include_distribution_resources,
     include_test |-> include_test,
     broken_extensions |-> broken_extensions]

NoCall == [op |-> "none", args |-> <<>>, ret |-> <<>>]

Called(op, args, ret) == [op |-> op, args |-> args, ret |-> ret]

\* impl Default for PythonPackagingPolicy
Init ==
    /\ extension_module_filter = "All"
    /\ preferred_extension_module_variants = EmptyMap
    /\ resources_policy = InMemoryOnly
    /\ include_distribution_sources = TRUE
    /\ include_distribution_resources = FALSE
    /\ include_test = FALSE
    /\ broken_extensions = EmptyMap
    /\ call = NoCall

-----------------------------------------------------------------------------
(* Argument domains of the setters. *)

\* Extension names the setters are called with.
ExtNames == {"readline", "_ssl"}

\* Variant names the setters are called with.
VariantNames == {"v1", "v2"}

TargetTriples == {"x86_64-unknown-linux-gnu", "x86_64-apple-darwin"}

PolicyChoices ==
    {InMemoryOnly, FilesystemRelativeOnly("lib"),
     PreferInMemoryFallbackFilesystemRelative("")}

\* The resolution has returned a value the caller has not taken yet.  The
\* caller is single threaded and uses the policy again only after the call
\* has returned (&self is borrowed for the duration of the call).
ResultPending == call.op = "resolve_python_extension_modules"

\* Number of extensions registered as broken, over all target triples.
TotalBroken(broken) ==
    LET RECURSIVE Sum(_)
        Sum(keys) ==
            IF keys = {} THEN 0
            ELSE LET k == CHOOSE x \in keys : TRUE
                 IN Len(broken[k]) + Sum(keys \ {k})
    IN Sum(DOMAIN broken)

-----------------------------------------------------------------------------
(* Setters of PythonPackagingPolicy. *)

set_extension_module_filter(filter) ==
    /\ ~ResultPending
    /\ extension_module_filter' = filter
    /\ call' = Called("set_extension_module_filter", <<filter>>, <<>>)
    /\ UNCHANGED <<preferred_extension_module_variants, resources_policy,
                   include_distribution_sources, include_distribution_resources,
                   include_test, broken_extensions>>

set_preferred_extension_module_variant(extension, variant) ==
    /\ ~ResultPending
    /\ preferred_extension_module_variants' =
           MapInsert(preferred_extension_module_variants, extension, variant)
    /\ call' = Called("set_preferred_extension_module_variant",
                      <<extension, variant>>, <<>>)
    /\ UNCHANGED <<extension_module_filter, resources_policy,
                   include_distribution_sources, include_distribution_resources,
                   include_test, broken_extensions>>

set_resources_policy(policy) ==
    /\ ~ResultPending
    /\ resources_policy' = policy
    /\ call' = Called("set_resources_policy", <<policy>>, <<>>)
    /\ UNCHANGED <<extension_module_filter, preferred_extension_module_variants,
                   include_distribution_sources, include_distribution_resources,
                   include_test, broken_extensions>>

set_include_distribution_sources(include) ==
    /\ ~ResultPending
    /\ include_distribution_sources' = include
    /\ call' = Called("set_include_distribution_sources", <<include>>, <<>>)
    /\ UNCHANGED <<extension_module_filter, preferred_extension_module_variants,
                   resources_policy, include_distribution_resources,
                   include_test, broken_extensions>>

set_include_distribution_resources(include) ==
    /\ ~ResultPending
    /\ include_distribution_resources' = include
    /\ call' = Called("set_include_distribution_resources", <<include>>, <<>>)
    /\ UNCHANGED <<extension_module_filter, preferred_extension_module_variants,
                   resources_policy, include_distribution_sources,
                   include_test, broken_extensions>>

set_include_test(include) ==
    /\ ~ResultPending
    /\ include_test' = include
    /\ call' = Called("set_include_test", <<include>>, <<>>)
    /\ UNCHANGED <<extension_module_filter, preferred_extension_module_variants,
                   resources_policy, include_distribution_sources,
                   include_distribution_resources, broken_extensions>>

\* register_broken_extension storing the extension as the only entry of the
\* target triple's list.
BrokenAfterRegister_Overwrite(broken, target_triple, extension) ==
    MapInsert(broken, target_triple, <<extension>>)

\* The map after register_broken_extension: the key is created with an empty
\* list if absent, then the extension is pushed to the key's list.
BrokenAfterRegister(broken, target_triple, extension) ==
    LET with_key == IF target_triple \notin DOMAIN broken
                    THEN MapInsert(broken, target_triple, <<>>)
                    ELSE broken
    IN [with_key EXCEPT ![target_triple] = Append(@, extension)]

register_broken_extension(target_triple, extension) ==
    /\ ~ResultPending
    /\ TotalBroken(broken_extensions) < MaxBroken
    /\ broken_extensions' =
           BrokenAfterRegister(broken_extensions, target_triple, extension)
    /\ call' = Called("register_broken_extension",
                      <<target_triple, extension>>, <<>>)
    /\ UNCHANGED <<extension_module_filter, preferred_extension_module_variants,
                   resources_policy, include_distribution_sources,
                   include_distribution_resources, include_test>>

-----------------------------------------------------------------------------
(* filter_python_resource. *)

ResourceKinds ==
    {"ModuleSource", "ModuleBytecodeRequest", "ModuleBytecode", "Resource",
     "DistributionResource", "ExtensionModuleDynamicLibrary",
     "ExtensionModuleStaticallyLinked", "PathExtension", "EggFile"}

PythonResource == [kind : ResourceKinds, is_test : BOOLEAN]

\* filter_python_resource whose ModuleSource arm does not look at is_test.
FilterPythonResource_SourceIgnoresTest(self, resource) ==
    CASE resource.kind = "ModuleSource" -> self.include_distribution_sources
      [] resource.kind = "ModuleBytecodeRequest" ->
            self.include_test \/ ~resource.is_test
      [] resource.kind = "Resource" ->
            IF self.include_distribution_resources
            THEN self.include_test \/ ~resource.is_test
            ELSE FALSE
      [] OTHER -> FALSE

\* The value filter_python_resource returns.
FilterPythonResource(self, resource) ==
    CASE resource.kind = "ModuleSource" ->
            IF ~self.include_test /\ resource.is_test
            THEN FALSE
            ELSE self.include_distribution_sources
      [] resource.kind = "ModuleBytecodeRequest" ->
            self.include_test \/ ~resource.is_test
      [] resource.kind = "ModuleBytecode" -> FALSE
      [] resource.kind = "Resource" ->
            IF self.include_distribution_resources
            THEN self.include_test \/ ~resource.is_test
            ELSE FALSE
      [] resource.kind = "DistributionResource" -> FALSE
      [] resource.kind = "ExtensionModuleDynamicLibrary" -> FALSE
      [] resource.kind = "ExtensionModuleStaticallyLinked" -> FALSE
      [] resource.kind = "PathExtension" -> FALSE
      [] resource.kind = "EggFile" -> FALSE

filter_python_resource(resource) ==
    /\ ~ResultPending
    /\ call' = Called("filter_python_resource", <<resource>>,
                      FilterPythonResource(Self, resource))
    /\ UNCHANGED policy_vars

-----------------------------------------------------------------------------
(* PythonExtensionModule and PythonExtensionModuleVariants               *)
(* (crate::resource) and NON_GPL_LICENSES (crate::licensing).             *)

\* A PythonExtensionModule: the fields and predicates the policy reads.
PythonExtensionModule(name, variant, profile) ==
    [name |-> name,
     variant |-> variant,
     minimally_required |-> profile[1],
     link_libraries |-> profile[2],
     licenses |-> profile[3],
     license_public_domain |-> profile[4]]

is_minimally_required(em) == em.minimally_required

requires_libraries(em) == em.link_libraries # <<>>

\* The licenses of the license identifiers in use that are not GPL.
NON_GPL_LICENSES == {"MIT", "BSD-3-Clause", "OpenSSL"}

\* PythonExtensionModuleVariants is its Vec of extension modules;
\* from_iter(variants.iter().filter_map(..)) is SelectSeq, the kept variants
\* in their order.
is_empty(variants) == Len(variants) = 0

default_variant(variants) == variants[1]

\* The preferred variant of the default variant's name if the map names one
\* and the group has it, else the default variant.
choose_variant(variants, preferred) ==
    LET default == variants[1]
        wanted == MapGet(preferred, default.name)
        found == {i \in DOMAIN variants :
                      wanted # None /\ variants[i].variant = wanted[1]}
    IN IF found = {}
       THEN default
       ELSE variants[CHOOSE i \in found : \A j \in found : i <= j]

-----------------------------------------------------------------------------
(* resolve_python_extension_modules. *)

\* The extension is broken on this target.
IsBroken(self, target_triple, name) ==
    LET got == MapGet(self.broken_extensions, target_triple)
        list == IF got = None THEN <<>> ELSE got[1]
    IN VecContains(list, name)

\* The minimal step choosing among all the variants of the group.
MinimalStep_WholeGroup(self, variants) ==
    LET ext_variants == SelectSeq(variants, is_minimally_required)
    IN IF ~is_empty(ext_variants)
       THEN <<choose_variant(variants,
                             self.preferred_extension_module_variants)>>
       ELSE <<>>

\* Always add minimally required extension modules.
MinimalStep(self, variants) ==
    LET ext_variants == SelectSeq(variants, is_minimally_required)
    IN IF ~is_empty(ext_variants)
       THEN <<choose_variant(ext_variants,
                             self.preferred_extension_module_variants)>>
       ELSE <<>>

AllArm(self, variants) ==
    <<choose_variant(variants, self.preferred_extension_module_variants)>>

\* The NoLibraries arm without its filter.
NoLibrariesArm_Unfiltered(self, variants) ==
    <<choose_variant(variants, self.preferred_extension_module_variants)>>

NoLibrariesArm(self, variants) ==
    LET Keep(em) == ~requires_libraries(em)
        ext_variants == SelectSeq(variants, Keep)
    IN IF ~is_empty(ext_variants)
       THEN <<choose_variant(ext_variants,
                             self.preferred_extension_module_variants)>>
       ELSE <<>>

\* The NoGPL filter accepting a license list with one allowed license.
NoGPLKeeps_AnyLicense(em) ==
    IF em.link_libraries = <<>>
    THEN TRUE
    ELSE IF em.license_public_domain = Some(TRUE)
    THEN TRUE
    ELSE IF em.licenses # None
    THEN \E i \in DOMAIN em.licenses[1] :
             em.licenses[1][i] \in NON_GPL_LICENSES
    ELSE FALSE

\* The filter_map closure of the NoGPL arm: whether the variant is kept.
NoGPLKeeps(em) ==
    IF em.link_libraries = <<>>
    THEN TRUE
    ELSE IF em.license_public_domain = Some(TRUE)
    THEN TRUE
    ELSE IF em.licenses # None
    THEN \A i \in DOMAIN em.licenses[1] :
             em.licenses[1][i] \in NON_GPL_LICENSES
    ELSE FALSE

NoGPLArm(self, variants) ==
    LET ext_variants == SelectSeq(variants, NoGPLKeeps)
    IN IF ~is_empty(ext_variants)
       THEN <<choose_variant(ext_variants,
                             self.preferred_extension_module_variants)>>
       ELSE <<>>

\* match self.extension_module_filter
StrategyStep(self, variants) ==
    CASE self.extension_module_filter = "Minimal" -> <<>>
      [] self.extension_module_filter = "All" -> AllArm(self, variants)
      [] self.extension_module_filter = "NoLibraries" ->
            NoLibrariesArm(self, variants)
      [] self.extension_module_filter = "NoGPL" -> NoGPLArm(self, variants)

\* The loop body with the minimal step ahead of the broken check.
LoopBody_MinimalBeforeBroken(self, variants, target_triple) ==
    MinimalStep(self, variants)
        \o (IF IsBroken(self, target_triple, default_variant(variants).name)
            THEN <<>>
            ELSE StrategyStep(self, variants))

\* The loop body pushing the strategy's variant only if it is not the one
\* the minimal step pushed.
LoopBody_Dedup(self, variants, target_triple) ==
    IF IsBroken(self, target_triple, default_variant(variants).name)
    THEN <<>>
    ELSE IF MinimalStep(self, variants) = StrategyStep(self, variants)
    THEN MinimalStep(self, variants)
    ELSE MinimalStep(self, variants) \o StrategyStep(self, variants)

\* The loop body choosing the minimal variant among the variants the
\* NoLibraries strategy keeps.
LoopBody_StrategyFiltersMinimal(self, variants, target_triple) ==
    IF IsBroken(self, target_triple, default_variant(variants).name)
    THEN <<>>
    ELSE IF self.extension_module_filter = "NoLibraries"
    THEN LET Keep(em) == ~requires_libraries(em)
         IN (IF is_empty(SelectSeq(variants, Keep))
             THEN <<>>
             ELSE MinimalStep(self, SelectSeq(variants, Keep)))
            \o StrategyStep(self, variants)
    ELSE MinimalStep(self, variants) \o StrategyStep(self, variants)

\* What one iteration of the loop pushes to res.
LoopBody(self, variants, target_triple) ==
    IF IsBroken(self, target_triple, default_variant(variants).name)
    THEN <<>>
    ELSE MinimalStep(self, variants) \o StrategyStep(self, variants)

RECURSIVE ResolveLoop_Break(_, _, _, _, _)
\* The loop leaving at the first broken extension.
ResolveLoop_Break(self, extensions_variants, target_triple, i, res) ==
    IF i > Len(extensions_variants)
    THEN res
    ELSE IF IsBroken(self, target_triple,
                     default_variant(extensions_variants[i]).name)
    THEN res
    ELSE ResolveLoop_Break(self, extensions_variants, target_triple, i + 1,
                           res \o LoopBody(self, extensions_variants[i],
                                           target_triple))

RECURSIVE ResolveLoop(_, _, _, _, _)
\* for variants in extensions_variants { .. }, from the i-th group on.
ResolveLoop(self, extensions_variants, target_triple, i, res) ==
    IF i > Len(extensions_variants)
    THEN res
    ELSE ResolveLoop(self, extensions_variants, target_triple, i + 1,
                     res \o LoopBody(self, extensions_variants[i],
                                     target_triple))

\* The value resolve_python_extension_modules returns in Ok(..).
ResolvePythonExtensionModules(self, extensions_variants, target_triple) ==
    ResolveLoop(self, extensions_variants, target_triple, 1, <<>>)

resolve_python_extension_modules(extensions_variants, target_triple) ==
    /\ ~ResultPending
    /\ call' = Called("resolve_python_extension_modules",
                      <<extensions_variants, target_triple>>,
                      Ok(ResolvePythonExtensionModules(
                             Self, extensions_variants, target_triple)))
    /\ UNCHANGED policy_vars

\* The caller takes the value the resolution returned.
Return ==
    /\ ResultPending
    /\ call' = NoCall
    /\ UNCHANGED policy_vars

-----------------------------------------------------------------------------
(* Text conversion of a PythonResourcesPolicy as calls. *)

Chars == {":", "a", "/"}

RECURSIVE StringsUpTo(_)
StringsUpTo(n) ==
    IF n = 0
    THEN {""}
    ELSE LET shorter == StringsUpTo(n - 1)
         IN shorter \cup {s \o c : s \in shorter, c \in Chars}

Prefixes == StringsUpTo(MaxPrefixLen)

AllResourcesPolicies ==
    {InMemoryOnly}
        \cup {FilesystemRelativeOnly(prefix) : prefix \in Prefixes}
        \cup {PreferInMemoryFallbackFilesystemRelative(prefix) : prefix \in Prefixes}

\* Texts handed to try_from: the recognised literals, near misses of them and
\* other text, each followed by every prefix.
TextHeads ==
    {"in-memory-only", "filesystem-relative-only:",
     "prefer-in-memory-fallback-filesystem-relative:",
     "filesystem-relative-only", "in-memory-only:", "bogus", ""}

Texts == {head \o tail : head \in TextHeads, tail \in Prefixes}

into(self) ==
    /\ call' = Called("into", <<self>>, Into(self))
    /\ UNCHANGED policy_vars

try_from(value) ==
    /\ call' = Called("try_from", <<value>>, TryFrom(value))
    /\ UNCHANGED policy_vars

-----------------------------------------------------------------------------
(* Inputs of resolve_python_extension_modules. *)

\* <<minimally required, link_libraries, licenses, license_public_domain>>
MinimalPlain == <<TRUE, <<>>, Some(<<"GPL-3.0">>), None>>

MinimalWithLibraries == <<TRUE, <<"ssl">>, None, None>>

PublicDomain == <<FALSE, <<"sqlite3">>, Some(<<"GPL-3.0">>), Some(TRUE)>>

Permissive == <<FALSE, <<"crypto">>, Some(<<"MIT">>), Some(FALSE)>>

PartlyGPL == <<FALSE, <<"readline">>, Some(<<"MIT", "GPL-3.0">>), None>>

Profiles ==
    {MinimalPlain, MinimalWithLibraries, PublicDomain, Permissive, PartlyGPL}

VariantTag(i) == <<"v1", "v2", "v3", "v4">>[i]

\* The group of the variants of extension `name` with the given profiles.
Group(name, profiles) ==
    [i \in 1..Len(profiles) |->
        PythonExtensionModule(name, VariantTag(i), profiles[i])]

\* Every group of 1..MaxVariants variants of one extension.
SingleGroups ==
    {Group("readline", profiles) :
        profiles \in UNION {[1..n -> Profiles] : n \in 1..MaxVariants}}

\* The groups that sequences of several groups are made of.
PoolGroups ==
    {Group("readline", <<MinimalWithLibraries, Permissive>>),
     Group("readline", <<PartlyGPL, MinimalPlain>>),
     Group("_ssl", <<PublicDomain>>),
     Group("_ssl", <<Permissive, MinimalPlain>>),
     Group("_io", <<MinimalPlain>>)}

\* A distribution has one group per extension name.
DistinctNames(groups) ==
    \A i, j \in DOMAIN groups :
        i # j => default_variant(groups[i]).name # default_variant(groups[j]).name

GroupSequences ==
    {groups \in UNION {[1..n -> PoolGroups] : n \in 0..MaxGroups} :
        DistinctNames(groups)}

ResolveInputs == {<<group>> : group \in SingleGroups} \cup GroupSequences

-----------------------------------------------------------------------------
(* Specifications. *)

\* Building a policy and resolving extension modules with it.  The first
\* variant of every input group is named "v1", so preferring "v1" resolves
\* as no preference does: the preferences set here are for the second variant.
Next ==
    \/ \E filter \in ExtensionModuleFilter : set_extension_module_filter(filter)
    \/ \E extension \in ExtNames, variant \in {VariantTag(2)} :
           set_preferred_extension_module_variant(extension, variant)
    \/ \E target_triple \in TargetTriples, extension \in ExtNames :
           register_broken_extension(target_triple, extension)
    \/ \E extensions_variants \in ResolveInputs, target_triple \in TargetTriples :
           resolve_python_extension_modules(extensions_variants, target_triple)
    \/ Return

Spec == Init /\ [][Next]_vars

\* Every setter of the policy.
NextPolicy ==
    \/ \E filter \in ExtensionModuleFilter : set_extension_module_filter(filter)
    \/ \E extension \in ExtNames, variant \in VariantNames :
           set_preferred_extension_module_variant(extension, variant)
    \/ \E policy \in PolicyChoices : set_resources_policy(policy)
    \/ \E include \in BOOLEAN : set_include_distribution_sources(include)
    \/ \E include \in BOOLEAN : set_include_distribution_resources(include)
    \/ \E include \in BOOLEAN : set_include_test(include)
    \/ \E target_triple \in TargetTriples, extension \in ExtNames :
           register_broken_extension(target_triple, extension)

SpecPolicy == Init /\ [][NextPolicy]_vars

\* The inclusion toggles and the resource predicate.
NextFilter ==
    \/ \E include \in BOOLEAN : set_include_distribution_sources(include)
    \/ \E include \in BOOLEAN : set_include_distribution_resources(include)
    \/ \E include \in BOOLEAN : set_include_test(include)
    \/ \E resource \in PythonResource : filter_python_resource(resource)

SpecFilter == Init /\ [][NextFilter]_vars

\* Formatting and parsing resources policies.
NextText ==
    \/ \E self \in AllResourcesPolicies : into(self)
    \/ \E value \in Texts \cup (IF call.op = "into" THEN {call.ret} ELSE {}) :
           try_from(value)

SpecText == Init /\ [][NextText]_vars

-----------------------------------------------------------------------------
(* Vocabulary of the properties. *)

Resolved == call.op = "resolve_python_extension_modules"

\* The groups and the target triple of the resolution, and what it returned.
CallGroups == call.args[1]

CallTriple == call.args[2]

Output == call.ret[2]

GroupName(group) == group[1].name

\* The output entries of the group named `name`.
EntriesOf(output, name) ==
    LET Named(em) == em.name = name
    IN SelectSeq(output, Named)

\* The name is registered as broken for the target triple of the resolution.
Denylisted(name) ==
    /\ CallTriple \in DOMAIN broken_extensions
    /\ \E i \in DOMAIN broken_extensions[CallTriple] :
           broken_extensions[CallTriple][i] = name

MinimalSubset(group) == {group[i] : i \in {j \in DOMAIN group : group[j].minimally_required}}

\* The entries of a group that follow the entry of its minimal step.
StrategyEntries(output, group) ==
    LET entries == EntriesOf(output, GroupName(group))
        skip == IF MinimalSubset(group) # {} THEN 1 ELSE 0
    IN SubSeq(entries, skip + 1, Len(entries))

\* The license rule of the NoGPL strategy.
LicenseRuleAdmits(em) ==
    \/ em.link_libraries = <<>>
    \/ em.license_public_domain = <<TRUE>>
    \/ /\ em.licenses # <<>>
       /\ \A i \in DOMAIN em.licenses[1] : em.licenses[1][i] \in NON_GPL_LICENSES

RECURSIVE IsSubsequence(_, _)
IsSubsequence(short, long) ==
    IF short = <<>> THEN TRUE
    ELSE IF long = <<>> THEN FALSE
    ELSE IF Head(short) = Head(long)
    THEN IsSubsequence(Tail(short), Tail(long))
    ELSE IsSubsequence(short, Tail(long))

RECURSIVE ConcatEach(_, _)
\* The outputs of resolving each group alone, one after the other.
ConcatEach(groups, i) ==
    IF i > Len(groups) THEN <<>>
    ELSE ResolvePythonExtensionModules(Self, <<groups[i]>>, CallTriple)
             \o ConcatEach(groups, i + 1)

-----------------------------------------------------------------------------
(* Properties. *)

\* C1: whatever the strategy, a resolution for target triple T has no entry
\* of a group whose name is registered as broken for T, not even the entry of
\* a minimally required variant.
C1_DenylistPrecedence ==
    Resolved =>
        \A i \in DOMAIN CallGroups :
            Denylisted(GroupName(CallGroups[i]))
                => EntriesOf(Output, GroupName(CallGroups[i])) = <<>>

C1_Witness ==
    /\ Resolved
    /\ extension_module_filter = "All"
    /\ Output # <<>>
    /\ \E i \in DOMAIN CallGroups :
           /\ Denylisted(GroupName(CallGroups[i]))
           /\ MinimalSubset(CallGroups[i]) # {}

\* C2: filter_python_resource returns what the table gives for the kind of
\* the resource, its is_test flag and the three include toggles.
C2_PredicateTable ==
    call.op = "filter_python_resource" =>
        LET resource == call.args[1]
            not_excluded_test == include_test \/ ~resource.is_test
        IN call.ret =
              CASE resource.kind = "ModuleSource" ->
                      include_distribution_sources /\ not_excluded_test
                [] resource.kind = "ModuleBytecodeRequest" -> not_excluded_test
                [] resource.kind = "Resource" ->
                      include_distribution_resources /\ not_excluded_test
                [] resource.kind \in
                      {"ModuleBytecode", "DistributionResource",
                       "ExtensionModuleDynamicLibrary",
                       "ExtensionModuleStaticallyLinked", "PathExtension",
                       "EggFile"} -> FALSE

C2_Witness ==
    /\ call.op = "filter_python_resource"
    /\ call.args[1] = [kind |-> "Resource", is_test |-> TRUE]
    /\ include_distribution_resources
    /\ include_test
    /\ call.ret = TRUE

\* C3 as claimed: under Minimal every group with a minimally required variant
\* contributes at least one entry, and only minimally required variants of it.
C3_MinimalAlwaysIncluded ==
    (Resolved /\ extension_module_filter = "Minimal") =>
        \A i \in DOMAIN CallGroups :
            MinimalSubset(CallGroups[i]) # {} =>
                LET entries == EntriesOf(Output, GroupName(CallGroups[i]))
                IN /\ entries # <<>>
                   /\ \A k \in DOMAIN entries :
                          entries[k] \in MinimalSubset(CallGroups[i])

\* C3 amended: under Minimal every group with a minimally required variant
\* whose name is not registered as broken for the target triple contributes
\* at least one entry, and only minimally required variants of it.
C3_MinimalIncludedUnlessBroken ==
    (Resolved /\ extension_module_filter = "Minimal") =>
        \A i \in DOMAIN CallGroups :
            (MinimalSubset(CallGroups[i]) # {}
                 /\ ~Denylisted(GroupName(CallGroups[i]))) =>
                LET entries == EntriesOf(Output, GroupName(CallGroups[i]))
                IN /\ entries # <<>>
                   /\ \A k \in DOMAIN entries :
                          entries[k] \in MinimalSubset(CallGroups[i])

C3_Witness ==
    /\ Resolved
    /\ extension_module_filter = "Minimal"
    /\ \E i \in DOMAIN CallGroups :
           /\ ~Denylisted(GroupName(CallGroups[i]))
           /\ ~CallGroups[i][1].minimally_required
           /\ MinimalSubset(CallGroups[i]) # {}
           /\ Len(EntriesOf(Output, GroupName(CallGroups[i]))) = 1

\* C4: under NoGPL the entry a group gets from the strategy is a variant of
\* the group that the license rule admits, and a group with no admitted
\* variant gets no such entry.
C4_NoGPLAdmission ==
    (Resolved /\ extension_module_filter = "NoGPL") =>
        \A i \in DOMAIN CallGroups :
            ~Denylisted(GroupName(CallGroups[i])) =>
                LET group == CallGroups[i]
                    chosen == StrategyEntries(Output, group)
                IN IF \A k \in DOMAIN group : ~LicenseRuleAdmits(group[k])
                   THEN chosen = <<>>
                   ELSE /\ Len(chosen) = 1
                        /\ \E k \in DOMAIN group : group[k] = chosen[1]
                        /\ LicenseRuleAdmits(chosen[1])

C4_Witness ==
    /\ Resolved
    /\ extension_module_filter = "NoGPL"
    /\ \E i \in DOMAIN CallGroups :
           LET group == CallGroups[i]
               chosen == StrategyEntries(Output, group)
           IN /\ ~Denylisted(GroupName(group))
              /\ ~LicenseRuleAdmits(group[1])
              /\ Len(chosen) = 1
              /\ chosen[1].license_public_domain = <<TRUE>>
              /\ chosen[1].licenses = << <<"GPL-3.0">> >>

\* C5 as claimed: under NoLibraries no entry of the output requires libraries.
C5_NoLibrariesOutput ==
    (Resolved /\ extension_module_filter = "NoLibraries") =>
        \A k \in DOMAIN Output : ~requires_libraries(Output[k])

\* C5 amended: under NoLibraries the entry a group gets from the strategy
\* does not require libraries, and it gets one if and only if it has a variant
\* that does not; an entry that requires libraries is the minimally required
\* variant the minimal step appended.
C5_NoLibrariesStrategyEntry ==
    (Resolved /\ extension_module_filter = "NoLibraries") =>
        /\ \A k \in DOMAIN Output :
               requires_libraries(Output[k]) => Output[k].minimally_required
        /\ \A i \in DOMAIN CallGroups :
               ~Denylisted(GroupName(CallGroups[i])) =>
                   LET group == CallGroups[i]
                       chosen == StrategyEntries(Output, group)
                   IN IF \A k \in DOMAIN group : requires_libraries(group[k])
                      THEN chosen = <<>>
                      ELSE /\ Len(chosen) = 1
                           /\ \E k \in DOMAIN group : group[k] = chosen[1]
                           /\ ~requires_libraries(chosen[1])

C5_Witness ==
    /\ Resolved
    /\ extension_module_filter = "NoLibraries"
    /\ \E i \in DOMAIN CallGroups :
           LET entries == EntriesOf(Output, GroupName(CallGroups[i]))
           IN /\ Len(entries) = 2
              /\ requires_libraries(entries[1])
              /\ ~requires_libraries(entries[2])

\* C6: under All a group that is not registered as broken contributes the
\* variant chosen among its minimally required variants, if it has any,
\* and then the variant chosen among all its variants; nothing is removed
\* when the two are the same variant.
C6_AllAppendsBoth ==
    (Resolved /\ extension_module_filter = "All") =>
        \A i \in DOMAIN CallGroups :
            ~Denylisted(GroupName(CallGroups[i])) =>
                LET group == CallGroups[i]
                    minimal == SelectSeq(group, is_minimally_required)
                    whole == choose_variant(
                                 group, preferred_extension_module_variants)
                IN EntriesOf(Output, GroupName(group)) =
                       IF minimal # <<>>
                       THEN <<choose_variant(
                                  minimal, preferred_extension_module_variants),
                              whole>>
                       ELSE <<whole>>

C6_Witness ==
    /\ Resolved
    /\ extension_module_filter = "All"
    /\ \E i \in DOMAIN CallGroups :
           LET entries == EntriesOf(Output, GroupName(CallGroups[i]))
           IN /\ Len(CallGroups[i]) >= 2
              /\ Len(entries) = 2
              /\ entries[1] = entries[2]

\* C7: the output for a sequence of groups is the outputs of resolving each
\* group alone, in the order of the groups.
C7_GroupsIndependent ==
    Resolved => Output = ConcatEach(CallGroups, 1)

C7_Witness ==
    /\ Resolved
    /\ Len(CallGroups) >= 2
    /\ Denylisted(GroupName(CallGroups[1]))
    /\ Output # <<>>

\* C8: parsing the text of a resources policy gives that policy back.
C8_RoundTrip ==
    call.op = "try_from" =>
        \A policy \in AllResourcesPolicies :
            call.args[1] = Into(policy) => call.ret = Ok(policy)

C8_Witness ==
    /\ call.op = "try_from"
    /\ call.args[1] = "prefer-in-memory-fallback-filesystem-relative::a"
    /\ call.ret = Ok(PreferInMemoryFallbackFilesystemRelative(":a"))

\* The fields of the policy other than the named one are left as they were.
OnlyChanges(field) ==
    /\ field = "extension_module_filter" \/ UNCHANGED extension_module_filter
    /\ field = "preferred_extension_module_variants"
           \/ UNCHANGED preferred_extension_module_variants
    /\ field = "resources_policy" \/ UNCHANGED resources_policy
    /\ field = "include_distribution_sources"
           \/ UNCHANGED include_distribution_sources
    /\ field = "include_distribution_resources"
           \/ UNCHANGED include_distribution_resources
    /\ field = "include_test" \/ UNCHANGED include_test
    /\ field = "broken_extensions" \/ UNCHANGED broken_extensions

\* What a step that ends a call to a setter has done to the policy.
SetterEffect ==
    LET op == call'.op
        args == call'.args
    IN /\ op = "set_extension_module_filter" =>
              /\ extension_module_filter' = args[1]
              /\ OnlyChanges("extension_module_filter")
       /\ op = "set_resources_policy" =>
              /\ resources_policy' = args[1]
              /\ OnlyChanges("resources_policy")
       /\ op = "set_include_distribution_sources" =>
              /\ include_distribution_sources' = args[1]
              /\ OnlyChanges("include_distribution_sources")
       /\ op = "set_include_distribution_resources" =>
              /\ include_distribution_resources' = args[1]
              /\ OnlyChanges("include_distribution_resources")
       /\ op = "set_include_test" =>
              /\ include_test' = args[1]
              /\ OnlyChanges("include_test")
       /\ op = "set_preferred_extension_module_variant" =>
              /\ DOMAIN preferred_extension_module_variants' =
                     DOMAIN preferred_extension_module_variants \cup {args[1]}
              /\ preferred_extension_module_variants'[args[1]] = args[2]
              /\ \A name \in DOMAIN preferred_extension_module_variants \ {args[1]} :
                     preferred_extension_module_variants'[name] =
                         preferred_extension_module_variants[name]
              /\ OnlyChanges("preferred_extension_module_variants")
       /\ op = "register_broken_extension" =>
              /\ DOMAIN broken_extensions' =
                     DOMAIN broken_extensions \cup {args[1]}
              /\ broken_extensions'[args[1]] =
                     (IF args[1] \in DOMAIN broken_extensions
                      THEN broken_extensions[args[1]]
                      ELSE <<>>) \o <<args[2]>>
              /\ \A triple \in DOMAIN broken_extensions \ {args[1]} :
                     broken_extensions'[triple] = broken_extensions[triple]
              /\ OnlyChanges("broken_extensions")

DefaultPolicy ==
    /\ extension_module_filter = "All"
    /\ resources_policy = <<"InMemoryOnly">>
    /\ include_distribution_sources = TRUE
    /\ include_distribution_resources = FALSE
    /\ include_test = FALSE
    /\ DOMAIN preferred_extension_module_variants = {}
    /\ DOMAIN broken_extensions = {}

\* C9: the policy starts with its defaults, and a call to a setter gives its
\* field, or its key of the map, the argument of the call (the broken list of
\* the triple gets the extension appended, the key being created if absent)
\* and leaves every other field and every other key as it was.
C9_SettersFrame == DefaultPolicy /\ [][SetterEffect]_vars

C9_Witness ==
    /\ call.op = "register_broken_extension"
    /\ extension_module_filter = "NoGPL"
    /\ include_test
    /\ "_ssl" \in DOMAIN preferred_extension_module_variants
    /\ \E triple \in DOMAIN broken_extensions :
           /\ Len(broken_extensions[triple]) = 2
           /\ broken_extensions[triple][1] = broken_extensions[triple][2]

\* The output of the resolution had the strategy been Minimal.
MinimalOutput ==
    ResolvePythonExtensionModules(
        [Self EXCEPT !.extension_module_filter = "Minimal"],
        CallGroups, CallTriple)

\* C10: the output under Minimal is a subsequence of the output under any
\* strategy, which has at most one more entry per group, and a group with a
\* minimally required variant has the same first entry under both.
C10_MinimalIsSubsequence ==
    Resolved =>
        /\ IsSubsequence(MinimalOutput, Output)
        /\ Len(Output) <= Len(MinimalOutput) + Len(CallGroups)
        /\ \A i \in DOMAIN CallGroups :
               LET name == GroupName(CallGroups[i])
                   minimal == EntriesOf(MinimalOutput, name)
                   entries == EntriesOf(Output, name)
               IN /\ Len(minimal) <= 1
                  /\ (minimal = <<>>) =
                         (Denylisted(name) \/ MinimalSubset(CallGroups[i]) = {})
                  /\ minimal # <<>> =>
                         (entries # <<>> /\ entries[1] = minimal[1])

C10_Witness ==
    /\ Resolved
    /\ extension_module_filter = "NoLibraries"
    /\ Len(CallGroups) >= 2
    /\ \E k \in DOMAIN MinimalOutput : requires_libraries(MinimalOutput[k])
    /\ Len(Output) > Len(MinimalOutput)

====
